---- MODULE Spec2Model ----
(***************************************************************************)
(* Model of module06_software_projects/06_04_packaging.ipynb: the tidy-up  *)
(* cell, the greet function listed in the notebook, the caller that prints *)
(* its result, and the greet command (greetings.command:process).          *)
(*                                                                         *)
(* A Python str is a sequence of one-character strings.  The escape        *)
(* character \x1b is the element "ESC" and the line end is "LF".           *)
(***************************************************************************)
EXTENDS Integers, Sequences, FiniteSets, TLC

VARIABLES
    calls,      \* every greet call made so far: [kw, result, via]
    ret,        \* value returned by the last direct greet call
    pc,         \* the calling cell: "idle" | "returned"
    stdout,     \* characters written to standard output
    stderr,     \* "" | "usage-error" : what the command wrote to standard error
    argv,       \* arguments of the last run of the greet command
    exit,       \* exit status of the last run: -1 (never run) | 0 | 2
    fs,         \* working directory: name -> "absent" | "file" | "dir"
    fs0,        \* working directory when the tidy-up cell started
    idx,        \* tidy-up loop: index of f in files
    tpc,        \* tidy-up cell: "test" | "remove" | "done" | "error"
    removed,    \* os.remove calls of this run: [path, was]
    runs        \* times the tidy-up cell was started

vars ==
    <<calls, ret, pc, stdout, stderr, argv, exit, fs, fs0, idx, tpc, removed, runs>>

greetVars == <<calls, ret, pc, stdout>>
cmdVars == <<stderr, argv, exit>>
tidyVars == <<fs, fs0, idx, tpc, removed, runs>>

----------------------------------------------------------------------------
(* Bounds *)

MaxCalls == 2       \* greet calls in one behaviour
MaxArgs == 5        \* words on the command line
MaxRuns == 2        \* times the tidy-up cell is run

----------------------------------------------------------------------------
(* Strings *)

ESC == "ESC"
LF == "LF"

Hey == <<"H", "e", "y", ",", " ">>
HowDoYouDo == <<"H", "o", "w", " ", "d", "o", " ", "y", "o", "u", " ", "d", "o", ",", " ">>
Space == <<" ">>
Period == <<".">>

\* colorama.Fore as used by the listing of greet
ForeGREEN == <<ESC, "[", "3", "2", "m">>
ForeBLUE == <<ESC, "[", "3", "4", "m">>
ForeRED == <<ESC, "[", "3", "1", "m">>

\* Escape codes written out in test_greeter's expected outputs
SGR40 == <<ESC, "[", "4", "0", "m">>
SGR33 == <<ESC, "[", "3", "3", "m">>
SGR47 == <<ESC, "[", "4", "7", "m">>
SGR1 == <<ESC, "[", "1", "m">>
SGR31 == <<ESC, "[", "3", "1", "m">>
SGR44 == <<ESC, "[", "4", "4", "m">>
SGR37 == <<ESC, "[", "3", "7", "m">>

James == <<"J", "a", "m", "e", "s">>
Hetherington == <<"H", "e", "t", "h", "e", "r", "i", "n", "g", "t", "o", "n">>
Dr == <<"D", "r">>
Al == <<"A", "l">>

\* Inputs
Personals == {James, Al}
Families == {Hetherington, <<>>}
Titles == {<<>>, Dr}

StartsWith(s, p) == Len(s) >= Len(p) /\ SubSeq(s, 1, Len(p)) = p
Drop(s, n) == SubSeq(s, n + 1, Len(s))

----------------------------------------------------------------------------
(* greet(personal, family, title="", polite=False) *)

DefaultTitle == <<>>
DefaultPolite == FALSE

\* "if title:" read as "if title is not None:"
TruthyNotNone(s) == TRUE

Truthy(s) == Len(s) > 0

\* the title is added on the informal branch only
GreetPoliteDropsTitle(personal, family, title, polite) ==
    LET greeting1 == IF polite THEN HowDoYouDo ELSE Hey
        greeting2 == ForeGREEN \o greeting1
        greeting3 == IF Truthy(title) /\ ~polite
                     THEN greeting2 \o ForeBLUE \o title \o Space
                     ELSE greeting2
    IN  greeting3 \o ForeRED \o personal \o Space \o family \o Period

\* greeting is a module-level string that every call appends to
GreetAccumulating(personal, family, title, polite) ==
    LET greeting0 == IF calls = <<>> THEN <<>> ELSE calls[Len(calls)].result
        greeting1 == IF polite THEN HowDoYouDo ELSE Hey
        greeting2 == greeting0 \o ForeGREEN \o greeting1
        greeting3 == IF Truthy(title)
                     THEN greeting2 \o ForeBLUE \o title \o Space
                     ELSE greeting2
    IN  greeting3 \o ForeRED \o personal \o Space \o family \o Period

\* family and personal change places
GreetFamilyFirst(personal, family, title, polite) ==
    LET greeting1 == IF polite THEN HowDoYouDo ELSE Hey
        greeting2 == ForeGREEN \o greeting1
        greeting3 == IF Truthy(title)
                     THEN greeting2 \o ForeBLUE \o title \o Space
                     ELSE greeting2
    IN  greeting3 \o ForeRED \o family \o Space \o personal \o Period

Greet(personal, family, title, polite) ==
    LET greeting1 == IF polite THEN HowDoYouDo ELSE Hey
        greeting2 == ForeGREEN \o greeting1
        greeting3 == IF Truthy(title)
                     THEN greeting2 \o ForeBLUE \o title \o Space
                     ELSE greeting2
    IN  greeting3 \o ForeRED \o personal \o Space \o family \o Period

\* Keyword arguments of a call: title and polite may be omitted.
Kwargs ==
    [personal : Personals, family : Families,
     hasTitle : BOOLEAN, title : Titles,
     hasPolite : BOOLEAN, polite : BOOLEAN]

WellFormedKw(kw) ==
    /\ (~kw.hasTitle => kw.title = <<>>)
    /\ (~kw.hasPolite => kw.polite = FALSE)

BoundTitle(kw) == IF kw.hasTitle THEN kw.title ELSE DefaultTitle
BoundPolite(kw) == IF kw.hasPolite THEN kw.polite ELSE DefaultPolite

GreetKw(kw) == Greet(kw.personal, kw.family, BoundTitle(kw), BoundPolite(kw))

----------------------------------------------------------------------------
(* The calling cell: print(greet(...)) *)

\* greet prints the greeting itself before returning it
CallGreetPrinting(kw) ==
    /\ pc = "idle"
    /\ Len(calls) < MaxCalls
    /\ WellFormedKw(kw)
    /\ ret' = GreetKw(kw)
    /\ calls' = Append(calls, [kw |-> kw, result |-> GreetKw(kw), via |-> "call"])
    /\ pc' = "returned"
    /\ stdout' = stdout \o GreetKw(kw) \o <<LF>>
    /\ UNCHANGED cmdVars
    /\ UNCHANGED tidyVars

CallGreet(kw) ==
    /\ pc = "idle"
    /\ Len(calls) < MaxCalls
    /\ WellFormedKw(kw)
    /\ ret' = GreetKw(kw)
    /\ calls' = Append(calls, [kw |-> kw, result |-> GreetKw(kw), via |-> "call"])
    /\ pc' = "returned"
    /\ UNCHANGED <<stdout>>
    /\ UNCHANGED cmdVars
    /\ UNCHANGED tidyVars

PrintRet ==
    /\ pc = "returned"
    /\ stdout' = stdout \o ret \o <<LF>>
    /\ pc' = "idle"
    /\ UNCHANGED <<calls, ret>>
    /\ UNCHANGED cmdVars
    /\ UNCHANGED tidyVars

----------------------------------------------------------------------------
(* The greet command: greetings.command:process *)

OptTitle == <<"-", "-", "t", "i", "t", "l", "e">>
OptT == <<"-", "t">>
OptPolite == <<"-", "-", "p", "o", "l", "i", "t", "e">>
OptP == <<"-", "p">>
OptHelp == <<"-", "-", "h", "e", "l", "p">>
OptH == <<"-", "h">>
OptX == <<"-", "x">>

HelpText == <<"usage: greet [-h] [--title TITLE] [--polite] personal family", LF>>

Words == {OptTitle, OptT, OptPolite, OptP, OptH, OptX, James, Hetherington, Dr, <<>>}

RECURSIVE SeqsUpTo(_, _)
SeqsUpTo(S, n) ==
    IF n = 0 THEN {<<>>}
    ELSE LET shorter == SeqsUpTo(S, n - 1)
         IN  shorter \cup {Append(q, w) : q \in shorter, w \in S}

IsOption(w) == Len(w) > 0 /\ w[1] = "-"

ParseResult(status, pos, title, polite) ==
    [status |-> status,
     personal |-> IF status = "ok" THEN pos[1] ELSE <<>>,
     family |-> IF status = "ok" THEN pos[2] ELSE <<>>,
     title |-> title,
     polite |-> polite]

\* a missing family name is taken to be empty
RECURSIVE ParseFromLenient(_, _, _, _, _)
ParseFromLenient(rest, pos, title, polite, extras) ==
    IF rest = <<>>
    THEN IF Len(pos) \in {1, 2} /\ ~extras
         THEN ParseResult("ok", IF Len(pos) = 1 THEN Append(pos, <<>>) ELSE pos,
                          title, polite)
         ELSE ParseResult("error", pos, title, polite)
    ELSE LET w == Head(rest) IN
         IF w \in {OptH, OptHelp}
         THEN ParseResult("help", pos, title, polite)
         ELSE IF w \in {OptTitle, OptT}
         THEN IF Len(rest) >= 2 /\ ~IsOption(rest[2])
              THEN ParseFromLenient(Drop(rest, 2), pos, rest[2], polite, extras)
              ELSE ParseResult("error", pos, title, polite)
         ELSE IF w \in {OptPolite, OptP}
         THEN ParseFromLenient(Tail(rest), pos, title, TRUE, extras)
         ELSE IF IsOption(w)
         THEN ParseFromLenient(Tail(rest), pos, title, polite, TRUE)
         ELSE ParseFromLenient(Tail(rest), Append(pos, w), title, polite, extras)

\* -p is declared without store_true and leaves polite False
RECURSIVE ParseFromShortPoliteLost(_, _, _, _, _)
ParseFromShortPoliteLost(rest, pos, title, polite, extras) ==
    IF rest = <<>>
    THEN IF Len(pos) = 2 /\ ~extras
         THEN ParseResult("ok", pos, title, polite)
         ELSE ParseResult("error", pos, title, polite)
    ELSE LET w == Head(rest) IN
         IF w \in {OptH, OptHelp}
         THEN ParseResult("help", pos, title, polite)
         ELSE IF w \in {OptTitle, OptT}
         THEN IF Len(rest) >= 2 /\ ~IsOption(rest[2])
              THEN ParseFromShortPoliteLost(Drop(rest, 2), pos, rest[2], polite, extras)
              ELSE ParseResult("error", pos, title, polite)
         ELSE IF w \in {OptPolite, OptP}
         THEN ParseFromShortPoliteLost(Tail(rest), pos, title, w = OptPolite \/ polite,
                                       extras)
         ELSE IF IsOption(w)
         THEN ParseFromShortPoliteLost(Tail(rest), pos, title, polite, TRUE)
         ELSE ParseFromShortPoliteLost(Tail(rest), Append(pos, w), title, polite, extras)

\* parse_args of the parser whose usage line is
\*   greet [-h] [--title TITLE] [--polite] personal family
\* scanning the words left to right: rest is what is still to read, pos the
\* positional words read, extras whether an unknown option was met.
RECURSIVE ParseFrom(_, _, _, _, _)
ParseFrom(rest, pos, title, polite, extras) ==
    IF rest = <<>>
    THEN IF Len(pos) = 2 /\ ~extras
         THEN ParseResult("ok", pos, title, polite)
         ELSE ParseResult("error", pos, title, polite)
    ELSE LET w == Head(rest) IN
         IF w \in {OptH, OptHelp}
         THEN ParseResult("help", pos, title, polite)
         ELSE IF w \in {OptTitle, OptT}
         THEN IF Len(rest) >= 2 /\ ~IsOption(rest[2])
              THEN ParseFrom(Drop(rest, 2), pos, rest[2], polite, extras)
              ELSE ParseResult("error", pos, title, polite)
         ELSE IF w \in {OptPolite, OptP}
         THEN ParseFrom(Tail(rest), pos, title, TRUE, extras)
         ELSE IF IsOption(w)
         THEN ParseFrom(Tail(rest), pos, title, polite, TRUE)
         ELSE ParseFrom(Tail(rest), Append(pos, w), title, polite, extras)

ParseArgs(args) == ParseFrom(args, <<>>, <<>>, FALSE, FALSE)

Process ==
    /\ exit = -1
    /\ LET a == ParseArgs(argv)
           greeting == Greet(a.personal, a.family, a.title, a.polite)
       IN  CASE a.status = "ok" ->
                  /\ calls' = Append(calls,
                        [kw |-> [personal |-> a.personal, family |-> a.family,
                                 hasTitle |-> TRUE, title |-> a.title,
                                 hasPolite |-> TRUE, polite |-> a.polite],
                         result |-> greeting, via |-> "command"])
                  /\ stdout' = stdout \o greeting \o <<LF>>
                  /\ exit' = 0
                  /\ UNCHANGED stderr
             [] a.status = "help" ->
                  /\ stdout' = stdout \o HelpText
                  /\ exit' = 0
                  /\ UNCHANGED <<calls, stderr>>
             [] a.status = "error" ->
                  /\ stderr' = "usage-error"
                  /\ exit' = 2
                  /\ UNCHANGED <<calls, stdout>>
    /\ UNCHANGED <<ret, pc, argv>>
    /\ UNCHANGED tidyVars

----------------------------------------------------------------------------
(* The tidy-up cell *)

\* the list names greeter.py only
FilesGreeterOnly == <<"greeter.py">>

\* the list also names a file the previous notebook did not create
FilesWithReadme == <<"greeter.py", "command.py", "README.md">>

files == <<"greeter.py", "command.py">>

FileNames == {"greeter.py", "command.py", "README.md"}
Kinds == {"absent", "file", "dir"}

\* os.path.exists(f)
PathExists(f) == fs[f] # "absent"

\* for f in files: the next f, or the end of the loop
TidyNext ==
    /\ tpc = "test"
    /\ idx > Len(files)
    /\ tpc' = "done"
    /\ UNCHANGED <<fs, fs0, idx, removed, runs>>
    /\ UNCHANGED greetVars
    /\ UNCHANGED cmdVars

\* the os.path.exists test is left out: os.remove(f) is always called
TidyTestUnchecked ==
    /\ tpc = "test"
    /\ idx <= Len(files)
    /\ tpc' = "remove"
    /\ UNCHANGED <<fs, fs0, idx, removed, runs>>
    /\ UNCHANGED greetVars
    /\ UNCHANGED cmdVars

\* if os.path.exists(f):
TidyTest ==
    /\ tpc = "test"
    /\ idx <= Len(files)
    /\ IF PathExists(files[idx])
       THEN tpc' = "remove" /\ UNCHANGED idx
       ELSE tpc' = "test" /\ idx' = idx + 1
    /\ UNCHANGED <<fs, fs0, removed, runs>>
    /\ UNCHANGED greetVars
    /\ UNCHANGED cmdVars

\* os.remove(f): unlinks a file; raises on a directory or a missing path
TidyRemove ==
    /\ tpc = "remove"
    /\ removed' = Append(removed, [path |-> files[idx], was |-> fs[files[idx]]])
    /\ IF fs[files[idx]] = "file"
       THEN /\ fs' = [fs EXCEPT ![files[idx]] = "absent"]
            /\ idx' = idx + 1
            /\ tpc' = "test"
       ELSE /\ tpc' = "error"
            /\ UNCHANGED <<fs, idx>>
    /\ UNCHANGED <<fs0, runs>>
    /\ UNCHANGED greetVars
    /\ UNCHANGED cmdVars

\* the cell is run again
TidyRerun ==
    /\ tpc = "done"
    /\ runs < MaxRuns
    /\ runs' = runs + 1
    /\ idx' = 1
    /\ tpc' = "test"
    /\ fs0' = fs
    /\ removed' = <<>>
    /\ UNCHANGED fs
    /\ UNCHANGED greetVars
    /\ UNCHANGED cmdVars

----------------------------------------------------------------------------
(* Specifications *)

CleanDir == [n \in FileNames |-> IF n = "README.md" THEN "file" ELSE "absent"]

InitGreet ==
    /\ calls = <<>>
    /\ ret = <<>>
    /\ pc = "idle"
    /\ stdout = <<>>

InitCmd ==
    /\ stderr = ""
    /\ exit = -1

InitTidied ==
    /\ fs0 = fs
    /\ idx = Len(files) + 1
    /\ tpc = "done"
    /\ removed = <<>>
    /\ runs = MaxRuns

\* the cells that import greet and print what it returns
Init ==
    /\ InitGreet
    /\ InitCmd
    /\ argv = <<>>
    /\ fs \in {CleanDir, [CleanDir EXCEPT !["README.md"] = "absent"]}
    /\ InitTidied

Next ==
    \/ \E kw \in Kwargs : CallGreet(kw)
    \/ PrintRet

Spec == Init /\ [][Next]_vars

\* one run of the greet command on a given command line
InitCommand ==
    /\ InitGreet
    /\ InitCmd
    /\ argv \in SeqsUpTo(Words, MaxArgs)
    /\ fs = CleanDir
    /\ InitTidied

NextCommand == Process

SpecCommand == InitCommand /\ [][NextCommand]_vars

\* the tidy-up cell, run from any working directory
InitTidy ==
    /\ InitGreet
    /\ InitCmd
    /\ argv = <<>>
    /\ fs \in [FileNames -> Kinds]
    /\ fs0 = fs
    /\ idx = 1
    /\ tpc = "test"
    /\ removed = <<>>
    /\ runs = 1

NextTidy ==
    \/ TidyTest
    \/ TidyRemove
    \/ TidyNext
    \/ TidyRerun

SpecTidy == InitTidy /\ [][NextTidy]_vars

\* the cell runs synchronously on one thread: a started loop keeps stepping;
\* running the cell again is left to the user
SpecTidyFair ==
    /\ InitTidy
    /\ [][NextTidy]_vars
    /\ WF_vars(TidyTest)
    /\ WF_vars(TidyRemove)
    /\ WF_vars(TidyNext)

----------------------------------------------------------------------------
(* Properties of greet *)

Salutation(polite) == IF polite THEN HowDoYouDo ELSE Hey

\* C1: with title and polite left at their defaults, greet returns
\* ESC[40m ESC[33m "Hey, " ESC[47m ESC[1m ESC[31m personal " " family and
\* nothing else, as test_greeter expects.
C1_DefaultGreetingAsTested ==
    \A i \in DOMAIN calls :
        LET c == calls[i] IN
        (~c.kw.hasTitle /\ ~c.kw.hasPolite) =>
            c.result = SGR40 \o SGR33 \o Hey \o SGR47 \o SGR1 \o SGR31
                       \o c.kw.personal \o Space \o c.kw.family

\* C2: a polite and an informal call on the same personal, family and title
\* differ only in the salutation: "How do you do, " stands where "Hey, "
\* stood, with the same characters before it and the same characters after.
C2_PoliteChangesOnlySalutation ==
    \A i, j \in DOMAIN calls :
        LET a == calls[i].result
            b == calls[j].result
        IN  ( /\ calls[i].kw.personal = calls[j].kw.personal
              /\ calls[i].kw.family = calls[j].kw.family
              /\ BoundTitle(calls[i].kw) = BoundTitle(calls[j].kw)
              /\ ~BoundPolite(calls[i].kw)
              /\ BoundPolite(calls[j].kw) )
            => \E k \in 0..Len(a) :
                  /\ SubSeq(a, 1, k) = SubSeq(b, 1, k)
                  /\ StartsWith(Drop(a, k), Hey)
                  /\ StartsWith(Drop(b, k), HowDoYouDo)
                  /\ Drop(a, k + Len(Hey)) = Drop(b, k + Len(HowDoYouDo))

C2_Witness ==
    \E i, j \in DOMAIN calls :
        /\ calls[i].kw.personal = calls[j].kw.personal
        /\ calls[i].kw.family = calls[j].kw.family
        /\ BoundTitle(calls[i].kw) = Dr
        /\ BoundTitle(calls[j].kw) = Dr
        /\ ~BoundPolite(calls[i].kw)
        /\ BoundPolite(calls[j].kw)

\* C3: a call with a non-empty title returns what the same call without a
\* title returns, with ESC[44m ESC[37m title " " inserted right after the
\* salutation and right before ESC[47m ESC[1m ESC[31m.
C3_TitleInsertedAsTested ==
    \A i, j \in DOMAIN calls :
        LET r == calls[i].result
            u == calls[j].result
            title == BoundTitle(calls[i].kw)
            sal == Salutation(BoundPolite(calls[i].kw))
        IN  ( /\ calls[i].kw.personal = calls[j].kw.personal
              /\ calls[i].kw.family = calls[j].kw.family
              /\ BoundPolite(calls[i].kw) = BoundPolite(calls[j].kw)
              /\ title # <<>>
              /\ BoundTitle(calls[j].kw) = <<>> )
            => \E k \in Len(sal)..Len(u) :
                  /\ SubSeq(u, k - Len(sal) + 1, k) = sal
                  /\ StartsWith(Drop(u, k), SGR47 \o SGR1 \o SGR31)
                  /\ r = SubSeq(u, 1, k) \o SGR44 \o SGR37 \o title \o Space
                         \o Drop(u, k)

IsGreetCall ==
    /\ Len(calls') = Len(calls) + 1
    /\ calls'[Len(calls')].via = "call"

C7_GreetIsPure ==
    [][IsGreetCall =>
          /\ UNCHANGED <<stdout, stderr, argv, exit, fs, fs0, idx, tpc, removed, runs>>
          /\ SubSeq(calls', 1, Len(calls)) = calls]_vars

C7_Witness ==
    /\ pc = "returned"
    /\ Len(calls) = 2
    /\ stdout = calls[1].result \o <<LF>>

\* C9: leaving the colour codes aside, the returned string is the salutation
\* chosen by polite, then title and one space exactly when title is
\* non-empty, then personal, one space, family, in that order.
Digits == {"0", "1", "2", "3", "4", "5", "6", "7", "8", "9"}

CodeLen(s) ==
    IF Len(s) >= 3 /\ s[1] = ESC /\ s[2] = "["
    THEN LET K == {k \in 3..Len(s) :
                      s[k] = "m" /\ \A d \in 3..(k - 1) : s[d] \in Digits}
         IN  IF K = {} THEN 0 ELSE CHOOSE k \in K : \A m \in K : k <= m
    ELSE 0

RECURSIVE SkipMarkup(_)
SkipMarkup(s) == IF CodeLen(s) = 0 THEN s ELSE SkipMarkup(Drop(s, CodeLen(s)))

C9_FieldOrder ==
    \A i \in DOMAIN calls :
        LET c == calls[i]
            sal == Salutation(BoundPolite(c.kw))
            title == BoundTitle(c.kw)
            tseg == IF title # <<>> THEN title \o Space ELSE <<>>
            name == c.kw.personal \o Space \o c.kw.family
            r0 == SkipMarkup(c.result)
            r1 == SkipMarkup(Drop(r0, Len(sal)))
            r2 == SkipMarkup(Drop(r1, Len(tseg)))
        IN  /\ StartsWith(r0, sal)
            /\ StartsWith(r1, tseg)
            /\ StartsWith(r2, name)

C9_Witness ==
    \E i \in DOMAIN calls :
        /\ BoundTitle(calls[i].kw) = Dr
        /\ BoundPolite(calls[i].kw)
        /\ calls[i].kw.personal = James
        /\ calls[i].kw.family = Hetherington

\* C10: a call with title "" returns what the same call with title omitted
\* returns, and that string has no title colour code and no space other
\* than those of the salutation and the one between personal and family.
Contains(s, p) == \E k \in 0..Len(s) : StartsWith(Drop(s, k), p)
Count(s, ch) == Cardinality({k \in DOMAIN s : s[k] = ch})

C10_EmptyTitleIsNoTitle ==
    \A i, j \in DOMAIN calls :
        ( /\ calls[i].kw.hasTitle
          /\ calls[i].kw.title = <<>>
          /\ ~calls[j].kw.hasTitle
          /\ calls[i].kw.personal = calls[j].kw.personal
          /\ calls[i].kw.family = calls[j].kw.family
          /\ BoundPolite(calls[i].kw) = BoundPolite(calls[j].kw) )
        => /\ calls[i].result = calls[j].result
           /\ ~Contains(calls[i].result, ForeBLUE)
           /\ Count(calls[i].result, " ")
                = Count(Salutation(BoundPolite(calls[i].kw)), " ") + 1
                  + Count(calls[i].kw.personal, " ")
                  + Count(calls[i].kw.family, " ")

C10_Witness ==
    \E i, j \in DOMAIN calls :
        /\ calls[i].kw.hasTitle
        /\ calls[i].kw.title = <<>>
        /\ ~calls[j].kw.hasTitle
        /\ calls[i].kw.personal = calls[j].kw.personal
        /\ calls[i].kw.family = calls[j].kw.family
        /\ BoundPolite(calls[i].kw) = BoundPolite(calls[j].kw)

----------------------------------------------------------------------------
(* Properties of the greet command *)

TitleFlags == {OptTitle, OptT}
PoliteFlags == {OptPolite, OptP}
HelpFlags == {OptHelp, OptH}

\* places of the positional words of a command line: the words that are not
\* options and are not the value of a title option
PositionalAt(args) ==
    {k \in DOMAIN args :
        /\ ~IsOption(args[k])
        /\ (k = 1 \/ args[k - 1] \notin TitleFlags)}

\* two positional words, known options only, each title option with a value
GreetingLine(args) ==
    /\ Cardinality(PositionalAt(args)) = 2
    /\ \A k \in DOMAIN args :
          /\ IsOption(args[k]) => args[k] \in TitleFlags \cup PoliteFlags
          /\ args[k] \in TitleFlags => (k < Len(args) /\ ~IsOption(args[k + 1]))

Lowest(S) == CHOOSE k \in S : \A m \in S : k <= m
Highest(S) == CHOOSE k \in S : \A m \in S : k >= m

TitleGiven(args) ==
    LET T == {k \in DOMAIN args : args[k] \in TitleFlags}
    IN  IF T = {} THEN <<>> ELSE args[Highest(T) + 1]

PoliteGiven(args) == \E k \in DOMAIN args : args[k] \in PoliteFlags

NoGreeting(out) == ~Contains(out, Hey) /\ ~Contains(out, HowDoYouDo)

\* C5: run on personal and family, with or without --title T / -t T and
\* --polite / -p, the command writes what greet returns for the mapped
\* arguments, then a line end, and exits with status 0.
C5_CommandAgreesWithGreet ==
    (exit # -1 /\ GreetingLine(argv)) =>
        /\ exit = 0
        /\ stderr = ""
        /\ stdout = Greet(argv[Lowest(PositionalAt(argv))],
                          argv[Highest(PositionalAt(argv))],
                          TitleGiven(argv), PoliteGiven(argv)) \o <<LF>>

C5_Witness ==
    /\ exit = 0
    /\ argv = <<OptP, James, Hetherington, OptTitle, Dr>>
    /\ stdout = Greet(James, Hetherington, Dr, TRUE) \o <<LF>>

\* C6 as stated: with fewer than two positional arguments the run ends in
\* the parser's failure, greet is not called and no greeting is written.
C6_FewerThanTwoAlwaysFails ==
    (exit # -1 /\ Cardinality(PositionalAt(argv)) < 2) =>
        /\ exit = 2
        /\ stderr = "usage-error"
        /\ calls = <<>>
        /\ NoGreeting(stdout)

\* C6 amended: with fewer than two positional arguments greet is not called
\* and no greeting is written; the run ends in the parser's failure unless
\* -h or --help is among the arguments.
C6_FewerThanTwoNeverGreets ==
    (exit # -1 /\ Cardinality(PositionalAt(argv)) < 2) =>
        /\ calls = <<>>
        /\ NoGreeting(stdout)
        /\ (\A k \in DOMAIN argv : argv[k] \notin HelpFlags)
              => (exit = 2 /\ stderr = "usage-error" /\ stdout = <<>>)

C6_Witness ==
    /\ exit = 2
    /\ argv = <<OptPolite, James>>
    /\ stderr = "usage-error"

----------------------------------------------------------------------------
(* Properties of the tidy-up cell *)

\* C8: when the tidy-up loop has run to its end, neither greeter.py nor
\* command.py exists in the working directory.
C8_TidyRemovesBoth ==
    tpc = "done" => (fs["greeter.py"] = "absent" /\ fs["command.py"] = "absent")

C8_Witness ==
    /\ tpc = "done"
    /\ runs = 1
    /\ fs0["greeter.py"] = "file"
    /\ fs0["command.py"] = "file"
    /\ Len(removed) = 2

\* C11: the tidy-up loop changes the presence of no path other than
\* greeter.py and command.py: every other path is as it was when the cell
\* started, and no path that was absent then exists now.
C11_TidyTouchesOnlyItsFiles ==
    \A n \in FileNames :
        /\ (n \notin {"greeter.py", "command.py"} => fs[n] = fs0[n])
        /\ (fs0[n] = "absent" => fs[n] = "absent")

C11_Witness ==
    /\ tpc = "done"
    /\ fs0["README.md"] = "file"
    /\ fs["README.md"] = "file"
    /\ fs0["greeter.py"] = "file"
    /\ fs["greeter.py"] = "absent"
    /\ fs0["command.py"] = "absent"

\* C12: os.remove is never called on a path that does not exist at the time
\* of the call, so no run raises file-not-found; with greeter.py and
\* command.py each a file or absent, a run raises nothing and, first or
\* second, reaches the end of the loop, after exactly two iterations.
NoDirectory(d) == d["greeter.py"] # "dir" /\ d["command.py"] # "dir"

C12_TidyNeverRemovesMissing ==
    /\ [](\A k \in DOMAIN removed : removed[k].was # "absent")
    /\ [](NoDirectory(fs0) => tpc # "error")
    /\ [](tpc = "done" => idx - 1 = 2)
    /\ ((tpc = "test" /\ idx = 1 /\ NoDirectory(fs)) ~> (tpc = "done"))

C12_Witness ==
    /\ tpc = "done"
    /\ runs = 2
    /\ idx = 3
    /\ removed = <<>>
    /\ fs["greeter.py"] = "absent"
    /\ fs["command.py"] = "absent"

====
